---- MODULE Spec2Model ----
(***************************************************************************)
(* A model of the YouTube downloader API server: the job record store      *)
(* (server/storage.ts), the background download orchestrators              *)
(* startDownload and startMuxDownload, and the /api/video-info format      *)
(* resolver (the routes file, src/unnamed/part_000).                       *)
(*                                                                         *)
(* Modelling conventions                                                   *)
(*  - A file path is a tuple of its parts, the empty tuple is JS null.     *)
(*  - A missing string property (undefined) is "", a missing number is 0:  *)
(*    the code reads every optional property through `|| default`, for     *)
(*    which undefined, "" and 0 behave alike.                              *)
(*  - The result of Array.prototype.find is a sequence of length 0 (not    *)
(*    found) or 1.                                                         *)
(*  - One action is one turn of the Node event loop: an event handler      *)
(*    together with the promise continuations it releases.                 *)
(***************************************************************************)
EXTENDS Integers, Sequences, FiniteSets, TLC

\* Job ids (randomUUID in MemStorage.createDownload): fresh, never reused.
JobIds == {"j1", "j2"}

\* The ids a specification creates jobs for.
OneJob == {"j1"}

\* Content lengths (bytes, scaled) of the video-bearing and the audio-only
\* streams of the catalog; the total every progress event reports.
VideoLength == 3

AudioLength == 2

(***************************************************************************)
(* Stream descriptors (ytdl videoFormat objects)                           *)
(***************************************************************************)
Fmt(itag, container, vcodec, acodec, label, hasV, hasA, abr, len) ==
  [itag |-> itag, container |-> container, videoCodec |-> vcodec,
   audioCodec |-> acodec, qualityLabel |-> label, hasVideo |-> hasV,
   hasAudio |-> hasA, audioBitrate |-> abr, contentLength |-> len]

F18  == Fmt("18",  "mp4",  "avc1", "mp4a", "360p",  TRUE,  TRUE,  96,  VideoLength)
F22  == Fmt("22",  "mp4",  "avc1", "mp4a", "720p",  TRUE,  TRUE,  192, VideoLength)
F43  == Fmt("43",  "webm", "vp8",  "vorbis", "360p", TRUE, TRUE,  128, VideoLength)
F36  == Fmt("36",  "3gp",  "mp4v", "mp4a", "240p",  TRUE,  TRUE,  32,  VideoLength)
F137 == Fmt("137", "mp4",  "avc1", "",     "1080p", TRUE,  FALSE, 0,   VideoLength)
F248 == Fmt("248", "webm", "vp9",  "",     "1080p", TRUE,  FALSE, 0,   VideoLength)
F399 == Fmt("399", "mp4",  "av01", "",     "1080p", TRUE,  FALSE, 0,   VideoLength)
F313 == Fmt("313", "webm", "vp9",  "",     "2160p", TRUE,  FALSE, 0,   VideoLength)
F571 == Fmt("571", "mp4",  "av01", "",     "4320p", TRUE,  FALSE, 0,   VideoLength)
F160 == Fmt("160", "3gp",  "mp4v", "",     "144p",  TRUE,  FALSE, 0,   VideoLength)
F139 == Fmt("139", "mp4",  "",     "mp4a", "",      FALSE, TRUE,  48,  AudioLength)
F140 == Fmt("140", "mp4",  "",     "mp4a", "",      FALSE, TRUE,  128, AudioLength)
F141 == Fmt("141", "mp4",  "",     "mp4a", "",      FALSE, TRUE,  256, AudioLength)
F251 == Fmt("251", "webm", "",     "opus", "",      FALSE, TRUE,  160, AudioLength)
F249 == Fmt("249", "webm", "",     "opus", "",      FALSE, TRUE,  0,   AudioLength)

\* The catalogs ytdl.getInfo may return to the orchestrators.
Catalogs ==
  { <<F18, F137, F248, F140, F251>>,
    <<F137, F248, F251, F141>>,
    <<F18, F137>> }

(***************************************************************************)
(* Requests (downloadRequestSchema)                                        *)
(***************************************************************************)
Req(method, format, itag, videoItag, audioItag) ==
  [downloadMethod |-> method, format |-> format, itag |-> itag,
   videoItag |-> videoItag, audioItag |-> audioItag]

NoReq == Req("", "", "", "", "")

Requests ==
  { Req("progressive", "mp4",  "18",  "", ""),
    Req("progressive", "webm", "251", "", ""),
    Req("progressive", "mp3",  "140", "", ""),
    Req("progressive", "mp4",  "140", "", ""),
    Req("mux", "mp4",  "", "137", "140"),
    Req("mux", "webm", "", "137", "140"),
    Req("mux", "webm", "", "248", "251") }

Legs == {"video", "audio"}

VARIABLES
  downloads,   \* MemStorage.downloads: a map from job id to its record
  statusLog,   \* history: the status values written to each job's record
  files,       \* the paths that exist on disk
  formats,     \* info.formats, the catalog of the remote video
  req,         \* the request each job was started with
  pc,          \* where each job's orchestrator is
  info,        \* per job: the paths and flags derived after getInfo
  rs,          \* per job and leg: the ytdl (source) stream
  ws,          \* per job and leg: the fs write stream
  downloaded,  \* per job and leg: bytes of the latest progress event
  total,       \* per job and leg: total of the latest progress event (0: none yet)
  tool,        \* per job: the ffmpeg command
  percent,     \* per job: the latest percent ffmpeg reported (|| 0)
  crashed,     \* an 'error' event with no listener was thrown: the process died
  response     \* the formats array of the last /api/video-info response, if any

jobVars == <<downloads, statusLog, files, formats, req, pc, info, rs, ws,
             downloaded, total, tool, percent, crashed>>

vars == <<jobVars, response>>

(***************************************************************************)
(* MemStorage (server/storage.ts)                                          *)
(***************************************************************************)
NULL == <<>>

\* { ...existing, ...updates }: the fields of updates replace existing's.
Merge(existing, updates) ==
  [k \in DOMAIN existing |->
     IF k \in DOMAIN updates THEN updates[k] ELSE existing[k]]

\* createDownload with the fields POST /api/download passes.
createDownload(store, id) ==
  [k \in DOMAIN store \cup {id} |->
     IF k = id THEN [status |-> "pending", progress |-> 0, filePath |-> NULL]
               ELSE store[k]]

getDownload(store, id) ==
  IF id \in DOMAIN store THEN <<store[id]>> ELSE <<>>

\* An update that stores a record for an id the store does not hold.
updateDownloadUpsert(store, id, updates) ==
  [k \in DOMAIN store \cup {id} |->
     IF k # id THEN store[k]
     ELSE IF id \in DOMAIN store THEN Merge(store[id], updates)
     ELSE Merge([status |-> "pending", progress |-> 0, filePath |-> NULL],
                updates)]

updateDownload(store, id, updates) ==
  IF id \notin DOMAIN store
    THEN store
    ELSE [store EXCEPT ![id] = Merge(@, updates)]

\* A delete that empties the store when the id is unknown.
deleteDownloadOrClear(store, id) ==
  IF id \in DOMAIN store THEN [k \in DOMAIN store \ {id} |-> store[k]]
  ELSE <<>>

deleteDownload(store, id) ==
  [k \in DOMAIN store \ {id} |-> store[k]]

\* The boolean deleteDownload returns (Map.prototype.delete).
deleteDownloadResult(store, id) == id \in DOMAIN store

clearDownloads(store) ==
  [k \in {} |-> store[k]]

\* History of the status values that reached a record.
LogStatus(log, store, id, updates) ==
  IF id \in DOMAIN store /\ "status" \in DOMAIN updates
    THEN [log EXCEPT ![id] = Append(@, updates.status)]
    ELSE log

(***************************************************************************)
(* Paths                                                                   *)
(***************************************************************************)
\* path.join(downloadsDir, `${downloadId}.${ext}`)
DownloadPath(id, ext) == <<"downloads", id, ".", ext>>

\* path.join(downloadsDir, `${downloadId}_temp.${container}`)
TempPath(id, container) == <<"downloads", id, "_temp.", container>>

\* A temporary video path that is not named after the job.
videoTempPathShared(id) == <<"downloads", "temp", "video.temp">>

\* path.join(tempDir, `${downloadId}_video.temp`) and its audio twin
videoTempPath(id) == <<"downloads", "temp", id, "_video.temp">>

audioTempPath(id) == <<"downloads", "temp", id, "_audio.temp">>

\* fs.unlinkSync guarded by fs.existsSync
Unlink(fs, path) == fs \ {path}

(***************************************************************************)
(* Arithmetic                                                              *)
(***************************************************************************)
\* Math.round(n / d) for n >= 0, d > 0: halves round up.
Round(n, d) == (2 * n + d) \div (2 * d)

(***************************************************************************)
(* Array helpers                                                           *)
(***************************************************************************)
\* arr[0] of a possibly empty array; arr.find(test) is the first
\* element of arr.filter(test). The result is a sequence of length 0 (undefined) or 1.
First(seq) == IF seq = <<>> THEN <<>> ELSE <<Head(seq)>>

\* a || b for find results
OrElse(a, b) == IF a # <<>> THEN a ELSE b

\* (f.audioBitrate || 0)
BitrateOr0(f) == f.audioBitrate

RECURSIVE InsertByBitrate(_, _)
\* Insert x after every element whose bitrate is >= x's.
InsertByBitrate(sorted, x) ==
  IF sorted = <<>> THEN <<x>>
  ELSE IF BitrateOr0(Head(sorted)) >= BitrateOr0(x)
         THEN <<Head(sorted)>> \o InsertByBitrate(Tail(sorted), x)
         ELSE <<x>> \o sorted

RECURSIVE SortByBitrateDesc(_)
\* seq.sort((a, b) => (b.audioBitrate || 0) - (a.audioBitrate || 0)); the sort
\* of Array.prototype.sort is stable.
SortByBitrateDesc(seq) ==
  IF seq = <<>> THEN <<>>
  ELSE InsertByBitrate(SortByBitrateDesc(SubSeq(seq, 1, Len(seq) - 1)),
                       seq[Len(seq)])

(***************************************************************************)
(* Format lookup of the orchestrators                                      *)
(***************************************************************************)
\* const audioFormats = ['webm', 'm4a', 'opus', 'mp4a', 'aac', 'mp3']
audioFormats == {"webm", "m4a", "opus", "mp4a", "aac", "mp3"}

\* f.hasAudio && !f.hasVideo
IsAudioOnly(f) == f.hasAudio /\ ~f.hasVideo

\* An audio lookup whose fallback takes the first audio-only stream.
SelectAudioFormatFirst(fmts, itag) ==
  LET exact == First(SelectSeq(fmts, LAMBDA f : f.itag = itag /\ IsAudioOnly(f)))
      any   == First(SelectSeq(fmts, IsAudioOnly))
  IN  OrElse(exact, any)

\* startDownload, audio branch: the exact itag, else the highest bitrate
\* audio-only stream, else any audio-only stream.
SelectAudioFormat(fmts, itag) ==
  LET exact  == First(SelectSeq(fmts, LAMBDA f : f.itag = itag /\ IsAudioOnly(f)))
      byRate == First(SortByBitrateDesc(SelectSeq(fmts, IsAudioOnly)))
      any    == First(SelectSeq(fmts, IsAudioOnly))
  IN  OrElse(OrElse(exact, byRate), any)

\* A video lookup that falls back to the first stream with video.
SelectVideoFormatOrAny(fmts, itag) ==
  OrElse(First(SelectSeq(fmts, LAMBDA f : f.itag = itag /\ f.hasVideo)),
         First(SelectSeq(fmts, LAMBDA f : f.hasVideo)))

\* startDownload, video branch: the exact itag among the streams with video.
SelectVideoFormat(fmts, itag) ==
  First(SelectSeq(fmts, LAMBDA f : f.itag = itag /\ f.hasVideo))

\* startMuxDownload: info.formats.find(f => f.itag.toString() === itag)
FindItag(fmts, itag) == First(SelectSeq(fmts, LAMBDA f : f.itag = itag))

\* Codec strings are kept as their family prefix ("avc1.640028" is "avc1").
StartsWith(codec, family) == codec = family

Includes(codec, family) == codec = family

\* startMuxDownload: the output container re-derived from the two streams.
MuxOutputContainer(v, a) ==
  IF StartsWith(v.videoCodec, "avc1") /\ Includes(a.audioCodec, "mp4a")
    THEN "mp4"
  ELSE IF v.container = "webm" /\ a.container = "webm"
    THEN "webm"
  ELSE IF Includes(a.audioCodec, "opus") /\ StartsWith(v.videoCodec, "vp9")
    THEN "webm"
  ELSE "mp4"

\* const isMP3Conversion = format === 'mp3'
isMP3Conversion(format) == format = "mp3"

NoPaths == [l \in Legs |-> NULL]

NoSizes == [l \in Legs |-> 0]

NoItags == [l \in Legs |-> ""]

\* What an orchestrator holds once its streams are created: the paths, the
\* sizes and the itags its ytdl filters select. kind "" is the state before
\* that, and the outcome of a lookup that throws.
Info(kind, mp3, path, final, size, itag) ==
  [kind |-> kind, isMP3Conversion |-> mp3, path |-> path,
   finalFilepath |-> final, size |-> size, itag |-> itag]

NoInfo == Info("", FALSE, NoPaths, NULL, NoSizes, NoItags)

\* startDownload, audio branch: tempFilepath and finalFilepath.
AudioPlan(id, r, fmts) ==
  LET found == SelectAudioFormat(fmts, r.itag)
  IN  IF found = <<>> THEN NoInfo
      ELSE
        LET audioFormat     == found[1]
            actualContainer == IF audioFormat.container # ""
                                 THEN audioFormat.container ELSE r.format
            mp3             == isMP3Conversion(r.format)
            tempFilepath    == IF mp3 THEN TempPath(id, actualContainer)
                                      ELSE DownloadPath(id, actualContainer)
            finalFilepath   == IF mp3 THEN DownloadPath(id, "mp3")
                                      ELSE DownloadPath(id, actualContainer)
        IN  Info("audio", mp3,
                 [NoPaths EXCEPT !["audio"] = tempFilepath], finalFilepath,
                 [NoSizes EXCEPT !["audio"] = audioFormat.contentLength],
                 [NoItags EXCEPT !["audio"] = audioFormat.itag])

\* startDownload, video branch: filepath is built from the requested format.
VideoPlan(id, r, fmts) ==
  LET found == SelectVideoFormat(fmts, r.itag)
  IN  IF found = <<>> THEN NoInfo
      ELSE Info("video", FALSE,
                [NoPaths EXCEPT !["video"] = DownloadPath(id, r.format)],
                DownloadPath(id, r.format),
                [NoSizes EXCEPT !["video"] = found[1].contentLength],
                [NoItags EXCEPT !["video"] = found[1].itag])

\* A startMuxDownload that names its output after the client's format.
MuxPlanTrustingHint(id, r, fmts) ==
  LET videoFormat == FindItag(fmts, r.videoItag)
      audioFormat == FindItag(fmts, r.audioItag)
  IN  IF videoFormat = <<>> \/ audioFormat = <<>> THEN NoInfo
      ELSE Info("mux", FALSE,
                [video |-> videoTempPath(id), audio |-> audioTempPath(id)],
                DownloadPath(id, r.format),
                [video |-> videoFormat[1].contentLength,
                 audio |-> audioFormat[1].contentLength],
                [video |-> videoFormat[1].itag, audio |-> audioFormat[1].itag])

\* startMuxDownload: the two temporary paths and the final path.
MuxPlan(id, r, fmts) ==
  LET videoFormat == FindItag(fmts, r.videoItag)
      audioFormat == FindItag(fmts, r.audioItag)
  IN  IF videoFormat = <<>> \/ audioFormat = <<>> THEN NoInfo
      ELSE Info("mux", FALSE,
                [video |-> videoTempPath(id), audio |-> audioTempPath(id)],
                DownloadPath(id, MuxOutputContainer(videoFormat[1], audioFormat[1])),
                [video |-> videoFormat[1].contentLength,
                 audio |-> audioFormat[1].contentLength],
                [video |-> videoFormat[1].itag, audio |-> audioFormat[1].itag])

Plan(id, r, fmts) ==
  IF r.downloadMethod = "mux" THEN MuxPlan(id, r, fmts)
  ELSE IF r.format \in audioFormats THEN AudioPlan(id, r, fmts)
  ELSE VideoPlan(id, r, fmts)

\* The legs whose streams the job creates.
LegsOf(i) ==
  IF i.kind = "mux" THEN Legs
  ELSE IF i.kind = "audio" THEN {"audio"}
  ELSE IF i.kind = "video" THEN {"video"}
  ELSE {}

(***************************************************************************)
(* The updates the orchestrators write                                     *)
(***************************************************************************)
\* { status: "downloading" }
DownloadingUpdate == [status |-> "downloading"]

\* { status: "failed", progress: 0 }
FailedUpdate == [status |-> "failed", progress |-> 0]

\* A completion update that leaves the progress as it is.
CompletedUpdateNoProgress(path) ==
  [status |-> "completed", filePath |-> path]

\* { status: "completed", progress: 100, filePath }
CompletedUpdate(path) ==
  [status |-> "completed", progress |-> 100, filePath |-> path]

\* A progress update that also restates the status.
ProgressUpdateWithStatus(p) == [progress |-> p, status |-> "downloading"]

\* A progress update that already names a file.
ProgressUpdateWithPath(p) == [progress |-> p, filePath |-> <<"downloads">>]

\* { progress } (the fileSize text is not modelled)
ProgressUpdate(p) == [progress |-> p]

\* An audio fetch progress that forgets to reserve 70..100 for the conversion.
AudioFetchProgressUnscaled(mp3, d, t) == Round(d * 100, t)

\* Audio fetch: Math.round((downloaded / total) * 70) for an mp3 target,
\* Math.round((downloaded / total) * 100) otherwise.
AudioFetchProgress(mp3, d, t) ==
  IF mp3 THEN Round(d * 70, t) ELSE Round(d * 100, t)

\* Video fetch: Math.round((downloaded / total) * 100)
VideoFetchProgress(d, t) == Round(d * 100, t)

\* An overall progress that truncates instead of rounding.
OverallProgressTruncated(vb, vt, ab, at) ==
  (40 * (vb * at + ab * vt)) \div (vt * at)

\* updateProgress: Math.round(((videoProgress + audioProgress) / 2) * 80)
\* with videoProgress = vb / vt and audioProgress = ab / at.
OverallProgress(vb, vt, ab, at) == Round(40 * (vb * at + ab * vt), vt * at)

\* An updateProgress that counts a leg that has not reported yet as 0.
MuxFetchUpdatesEarly(nd, nt) ==
  IF nt["video"] > 0 /\ nt["audio"] > 0
    THEN <<ProgressUpdate(OverallProgress(nd["video"], nt["video"],
                                          nd["audio"], nt["audio"]))>>
  ELSE IF nt["video"] > 0
    THEN <<ProgressUpdate(Round(40 * nd["video"], nt["video"]))>>
  ELSE IF nt["audio"] > 0
    THEN <<ProgressUpdate(Round(40 * nd["audio"], nt["audio"]))>>
  ELSE <<>>

\* updateProgress: the updates it writes (one or none) given the latest
\* bytes and totals of the two legs.
MuxFetchUpdates(nd, nt) ==
  IF nt["video"] > 0 /\ nt["audio"] > 0
    THEN <<ProgressUpdate(OverallProgress(nd["video"], nt["video"],
                                          nd["audio"], nt["audio"]))>>
    ELSE <<>>

\* await storage.updateDownload(downloadId, { progress: 75 })
ConversionStart == 75

\* A conversion progress spread over 70..100.
ConversionProgressFromSeventy(pct) == Round(70 * 10 + pct * 3, 10)

\* Math.round(75 + (progress.percent || 0) * 0.25)
ConversionProgress(pct) == Round(75 * 4 + pct, 4)

\* await storage.updateDownload(downloadId, { progress: 81 })
MuxStart == 81

\* A mux progress with the factor 0.25 of the mp3 conversion.
MuxProgressQuarter(pct) == Round(81 * 4 + pct, 4)

\* A mux progress spread over 80..100.
MuxProgressFromEighty(pct) == Round(80 * 100 + pct * 20, 100)

\* Math.round(81 + (progress.percent || 0) * 0.18)
MuxProgress(pct) == Round(81 * 100 + pct * 18, 100)

\* A progress event of ffmpeg with no percent.
NoPercent == -1

\* The percents ffmpeg reports.
Percents == {0, 1, 25, 50, 99, 100}

\* (progress.percent || 0)
PercentOr0(pct) == IF pct = NoPercent THEN 0 ELSE pct

\* A catch block that forgets the audio leg's temporary file.
MuxCleanupVideoOnly(fs, id) ==
  fs \ {videoTempPath(id), DownloadPath(id, "mp4"), DownloadPath(id, "webm")}

\* The catch block of startMuxDownload: both temporary files and the final
\* output under either container.
MuxCleanup(fs, id) ==
  fs \ {videoTempPath(id), audioTempPath(id),
        DownloadPath(id, "mp4"), DownloadPath(id, "webm")}

\* A successful mux that leaves its temporary files.
MuxTempCleanupNone(fs, id) == fs

\* The temporary files startMuxDownload removes after a successful mux.
MuxTempCleanup(fs, id) == fs \ {videoTempPath(id), audioTempPath(id)}

\* A conversion catch block that leaves the raw file.
ConversionErrorCleanupNone(fs, i) == fs

\* The catch block of the mp3 conversion:
\* if (fs.existsSync(tempFilepath)) fs.unlinkSync(tempFilepath)
ConversionErrorCleanup(fs, i) == Unlink(fs, i.path["audio"])

\* if (isMP3Conversion && fs.existsSync(tempFilepath)) fs.unlinkSync(...)
AudioErrorCleanup(fs, i) ==
  IF i.isMP3Conversion THEN Unlink(fs, i.path["audio"]) ELSE fs

(***************************************************************************)
(* Initial state                                                           *)
(***************************************************************************)
Init ==
  /\ downloads = <<>>
  /\ statusLog = [j \in JobIds |-> <<>>]
  /\ files = {}
  /\ formats \in Catalogs
  /\ req = [j \in JobIds |-> NoReq]
  /\ pc = [j \in JobIds |-> "idle"]
  /\ info = [j \in JobIds |-> NoInfo]
  /\ rs = [j \in JobIds |-> [l \in Legs |-> "none"]]
  /\ ws = [j \in JobIds |-> [l \in Legs |-> "none"]]
  /\ downloaded = [j \in JobIds |-> [l \in Legs |-> 0]]
  /\ total = [j \in JobIds |-> [l \in Legs |-> 0]]
  /\ tool = [j \in JobIds |-> "none"]
  /\ percent = [j \in JobIds |-> 0]
  /\ crashed = FALSE
  /\ response = <<>>

\* storage.updateDownload(id, u), with the history kept.
Write(id, u) ==
  /\ downloads' = updateDownload(downloads, id, u)
  /\ statusLog' = LogStatus(statusLog, downloads, id, u)

NoWrite == UNCHANGED <<downloads, statusLog>>

(***************************************************************************)
(* POST /api/download and the orchestrators                                *)
(***************************************************************************)
\* POST /api/download: the record is created pending, and the orchestrator
\* called in the same turn marks it downloading before its first await of
\* ytdl.getInfo.
PostDownload(id, r) ==
  /\ ~crashed
  /\ UNCHANGED response
  /\ pc[id] = "idle"
  /\ LET created == createDownload(downloads, id)
         logged  == [statusLog EXCEPT ![id] = Append(@, "pending")]
     IN  /\ downloads' = updateDownload(created, id, DownloadingUpdate)
         /\ statusLog' = LogStatus(logged, created, id, DownloadingUpdate)
  /\ req' = [req EXCEPT ![id] = r]
  /\ pc' = [pc EXCEPT ![id] = "getInfo"]
  /\ UNCHANGED <<files, formats, info, rs, ws, downloaded, total, tool,
                 percent, crashed>>

\* The catch block of the orchestrator: startMuxDownload removes its files,
\* both mark the job failed.
CatchFiles(fs, id, r) ==
  IF r.downloadMethod = "mux" THEN MuxCleanup(fs, id) ELSE fs

\* ytdl.getInfo rejects: the catch block runs.
GetInfoFail(id) ==
  /\ ~crashed
  /\ UNCHANGED response
  /\ pc[id] = "getInfo"
  /\ files' = CatchFiles(files, id, req[id])
  /\ Write(id, FailedUpdate)
  /\ pc' = [pc EXCEPT ![id] = "done"]
  /\ UNCHANGED <<formats, req, info, rs, ws, downloaded, total, tool,
                 percent, crashed>>

\* ytdl.getInfo resolves: the streams are looked up; a missing stream throws
\* into the catch block, otherwise the read and write streams are created
\* and their handlers attached.
GetInfoOk(id) ==
  /\ ~crashed
  /\ UNCHANGED response
  /\ pc[id] = "getInfo"
  /\ LET i == Plan(id, req[id], formats)
     IN  IF i.kind = ""
           THEN /\ files' = CatchFiles(files, id, req[id])
                /\ Write(id, FailedUpdate)
                /\ pc' = [pc EXCEPT ![id] = "done"]
                /\ UNCHANGED <<info, rs, ws>>
           ELSE /\ info' = [info EXCEPT ![id] = i]
                /\ rs' = [rs EXCEPT ![id] =
                            [l \in Legs |-> IF l \in LegsOf(i) THEN "flowing" ELSE "none"]]
                /\ ws' = [ws EXCEPT ![id] =
                            [l \in Legs |-> IF l \in LegsOf(i) THEN "opening" ELSE "none"]]
                /\ pc' = [pc EXCEPT ![id] = "fetch"]
                /\ UNCHANGED <<files, downloads, statusLog>>
  /\ UNCHANGED <<formats, req, downloaded, total, tool, percent, crashed>>

\* fs.createWriteStream opens its file asynchronously: the file exists from
\* the stream's 'open' on.
WriteOpen(id, leg) ==
  /\ ~crashed
  /\ UNCHANGED response
  /\ ws[id][leg] = "opening"
  /\ ws' = [ws EXCEPT ![id][leg] = "open"]
  /\ files' = files \cup {info[id].path[leg]}
  /\ UNCHANGED <<downloads, statusLog, formats, req, pc, info, rs,
                 downloaded, total, tool, percent, crashed>>

\* stream.on('progress', (chunkLength, downloaded, total) => ...)
StreamProgress(id, leg, d) ==
  /\ ~crashed
  /\ UNCHANGED response
  /\ rs[id][leg] = "flowing"
  /\ d \in downloaded[id][leg] .. info[id].size[leg]
  /\ LET t  == info[id].size[leg]
         nd == [downloaded[id] EXCEPT ![leg] = d]
         nt == [total[id] EXCEPT ![leg] = t]
     IN  /\ downloaded' = [downloaded EXCEPT ![id] = nd]
         /\ total' = [total EXCEPT ![id] = nt]
         /\ IF info[id].kind = "audio"
              THEN Write(id, ProgressUpdate(
                         AudioFetchProgress(info[id].isMP3Conversion, d, t)))
            ELSE IF info[id].kind = "video"
              THEN Write(id, ProgressUpdate(VideoFetchProgress(d, t)))
            ELSE IF MuxFetchUpdates(nd, nt) # <<>>
              THEN Write(id, MuxFetchUpdates(nd, nt)[1])
            ELSE NoWrite
  /\ UNCHANGED <<files, formats, req, pc, info, rs, ws, tool, percent, crashed>>

\* The source stream ends once every byte was delivered. Only the video
\* branch of startDownload listens: it completes the job.
StreamEnd(id, leg) ==
  /\ ~crashed
  /\ UNCHANGED response
  /\ rs[id][leg] = "flowing"
  /\ downloaded[id][leg] = info[id].size[leg]
  /\ rs' = [rs EXCEPT ![id][leg] = "ended"]
  /\ IF info[id].kind = "video"
       THEN /\ Write(id, CompletedUpdate(info[id].finalFilepath))
            /\ pc' = [pc EXCEPT ![id] = "done"]
       ELSE /\ NoWrite
            /\ UNCHANGED pc
  /\ UNCHANGED <<files, formats, req, info, ws, downloaded, total, tool,
                 percent, crashed>>

\* ffmpeg is started on its output path, which it creates.
ToolStarts(id) ==
  /\ tool' = [tool EXCEPT ![id] = "running"]
  /\ files' = files \cup {info[id].finalFilepath}

\* await Promise.all([videoPromise, audioPromise]) is still pending: no leg
\* was rejected and the continuation did not run yet.
AwaitingBoth(id) == info[id].kind = "mux" /\ pc[id] = "fetch"

\* reject(error) of a leg of the mux path: the first one settles Promise.all
\* and runs the catch block, a later one is ignored.
MuxReject(id) ==
  IF AwaitingBoth(id)
    THEN /\ files' = MuxCleanup(files, id)
         /\ Write(id, FailedUpdate)
         /\ pc' = [pc EXCEPT ![id] = "done"]
    ELSE /\ NoWrite
         /\ UNCHANGED <<files, pc>>

\* A Promise.all that takes the end of the other leg's source stream for
\* its completion.
OtherLegsEnded(id, leg) ==
  \A l \in Legs \ {leg} : rs[id][l] = "ended"

\* Promise.all([videoPromise, audioPromise]) with the promise of leg just
\* resolved: it resolves when the promise of the other leg is resolved too,
\* which its write stream's 'finish' did.
OtherLegsResolved(id, leg) ==
  \A l \in Legs \ {leg} : ws[id][l] = "finished"

\* writeStream 'finish': the piped source has ended and every byte is
\* flushed. The audio branch completes the job or starts the mp3 conversion;
\* the mux path resolves the leg's promise and, with both resolved, starts
\* the mux; the video branch does not listen.
WriteFinish(id, leg) ==
  /\ ~crashed
  /\ UNCHANGED response
  /\ rs[id][leg] = "ended"
  /\ ws[id][leg] = "open"
  /\ ws' = [ws EXCEPT ![id][leg] = "finished"]
  /\ IF info[id].kind = "audio"
       THEN IF info[id].isMP3Conversion
              THEN /\ Write(id, ProgressUpdate(ConversionStart))
                   /\ ToolStarts(id)
                   /\ pc' = [pc EXCEPT ![id] = "convert"]
              ELSE /\ Write(id, CompletedUpdate(info[id].finalFilepath))
                   /\ pc' = [pc EXCEPT ![id] = "done"]
                   /\ UNCHANGED <<files, tool>>
     ELSE IF AwaitingBoth(id) /\ OtherLegsResolved(id, leg)
       THEN /\ Write(id, ProgressUpdate(MuxStart))
            /\ ToolStarts(id)
            /\ pc' = [pc EXCEPT ![id] = "mux"]
     ELSE /\ NoWrite
          /\ UNCHANGED <<files, tool, pc>>
  /\ UNCHANGED <<formats, req, info, rs, downloaded, total, percent, crashed>>

\* stream.on('error', ...): the source stream fails before it ended.
StreamError(id, leg) ==
  /\ ~crashed
  /\ UNCHANGED response
  /\ rs[id][leg] = "flowing"
  /\ rs' = [rs EXCEPT ![id][leg] = "error"]
  /\ IF info[id].kind = "audio"
       THEN /\ files' = AudioErrorCleanup(files, info[id])
            /\ Write(id, FailedUpdate)
            /\ pc' = [pc EXCEPT ![id] = "done"]
     ELSE IF info[id].kind = "video"
       THEN /\ Write(id, FailedUpdate)
            /\ pc' = [pc EXCEPT ![id] = "done"]
            /\ UNCHANGED files
     ELSE MuxReject(id)
  /\ UNCHANGED <<formats, req, info, ws, downloaded, total, tool, percent,
                 crashed>>

\* writeStream 'error': opening or writing the file fails. The video branch
\* of startDownload attaches no listener: pipe() re-emits the error, which is
\* thrown as an uncaught exception.
WriteError(id, leg) ==
  /\ ~crashed
  /\ UNCHANGED response
  /\ ws[id][leg] \in {"opening", "open"}
  /\ ws' = [ws EXCEPT ![id][leg] = "error"]
  /\ IF info[id].kind = "audio"
       THEN /\ files' = AudioErrorCleanup(files, info[id])
            /\ Write(id, FailedUpdate)
            /\ pc' = [pc EXCEPT ![id] = "done"]
            /\ UNCHANGED crashed
     ELSE IF info[id].kind = "video"
       THEN /\ crashed' = TRUE
            /\ NoWrite
            /\ UNCHANGED <<files, pc>>
     ELSE /\ MuxReject(id)
          /\ UNCHANGED crashed
  /\ UNCHANGED <<formats, req, info, rs, downloaded, total, tool, percent>>

\* ffmpeg 'progress'
ToolProgress(id, pct) ==
  /\ ~crashed
  /\ UNCHANGED response
  /\ tool[id] = "running"
  /\ PercentOr0(pct) >= percent[id]
  /\ percent' = [percent EXCEPT ![id] = PercentOr0(pct)]
  /\ IF info[id].kind = "audio"
       THEN Write(id, ProgressUpdate(ConversionProgress(PercentOr0(pct))))
       ELSE Write(id, ProgressUpdate(MuxProgress(PercentOr0(pct))))
  /\ UNCHANGED <<files, formats, req, pc, info, rs, ws, downloaded, total,
                 tool, crashed>>

\* What follows the awaited ffmpeg promise: fs.statSync(finalFilepath) throws
\* into the catch block when the file is missing, else the job completes.
Finalize(id, fs) ==
  IF info[id].finalFilepath \in fs
    THEN /\ files' = fs
         /\ Write(id, CompletedUpdate(info[id].finalFilepath))
    ELSE /\ files' = CatchFiles(AudioErrorCleanup(fs, info[id]), id, req[id])
         /\ Write(id, FailedUpdate)

\* ffmpeg 'end': the temporary files are removed, then the job is finalized.
ToolEnd(id) ==
  /\ ~crashed
  /\ UNCHANGED response
  /\ tool[id] = "running"
  /\ tool' = [tool EXCEPT ![id] = "ended"]
  /\ IF info[id].kind = "audio"
       THEN Finalize(id, Unlink(files, info[id].path["audio"]))
       ELSE Finalize(id, MuxTempCleanup(files, id))
  /\ pc' = [pc EXCEPT ![id] = "done"]
  /\ UNCHANGED <<formats, req, info, rs, ws, downloaded, total, percent,
                 crashed>>

\* ffmpeg 'error': the promise rejects into the catch block.
ToolError(id) ==
  /\ ~crashed
  /\ UNCHANGED response
  /\ tool[id] = "running"
  /\ tool' = [tool EXCEPT ![id] = "error"]
  /\ IF info[id].kind = "audio"
       THEN files' = ConversionErrorCleanup(files, info[id])
       ELSE files' = MuxCleanup(files, id)
  /\ Write(id, FailedUpdate)
  /\ pc' = [pc EXCEPT ![id] = "done"]
  /\ UNCHANGED <<formats, req, info, rs, ws, downloaded, total, percent,
                 crashed>>

(***************************************************************************)
(* DELETE /api/download/:id and DELETE /api/downloads                      *)
(***************************************************************************)
\* if (download.filePath && fs.existsSync(download.filePath)) unlinkSync
RemoveFileOf(fs, record) ==
  IF record.filePath # NULL THEN Unlink(fs, record.filePath) ELSE fs

\* DELETE /api/download/:id: 404 for an unknown id, else the completed file
\* and the record are removed. A running task is not told.
DeleteRoute(id) ==
  /\ ~crashed
  /\ UNCHANGED response
  /\ IF getDownload(downloads, id) = <<>>
       THEN UNCHANGED <<downloads, files>>
       ELSE /\ files' = RemoveFileOf(files, downloads[id])
            /\ downloads' = deleteDownload(downloads, id)
  /\ UNCHANGED <<statusLog, formats, req, pc, info, rs, ws, downloaded,
                 total, tool, percent, crashed>>

\* DELETE /api/downloads
ClearRoute ==
  /\ ~crashed
  /\ UNCHANGED response
  /\ files' = files \ {downloads[k].filePath : k \in DOMAIN downloads}
  /\ downloads' = clearDownloads(downloads)
  /\ UNCHANGED <<statusLog, formats, req, pc, info, rs, ws, downloaded,
                 total, tool, percent, crashed>>

(***************************************************************************)
(* Specification: one job, its events in every order                       *)
(***************************************************************************)
JobStep(id) ==
  \/ \E r \in Requests : PostDownload(id, r)
  \/ GetInfoFail(id)
  \/ GetInfoOk(id)
  \/ \E leg \in Legs : WriteOpen(id, leg)
  \/ \E leg \in Legs : \E d \in 0 .. VideoLength + AudioLength :
       StreamProgress(id, leg, d)
  \/ \E leg \in Legs : StreamEnd(id, leg)
  \/ \E leg \in Legs : WriteFinish(id, leg)
  \/ \E leg \in Legs : StreamError(id, leg)
  \/ \E leg \in Legs : WriteError(id, leg)
  \/ \E pct \in Percents \cup {NoPercent} : ToolProgress(id, pct)
  \/ ToolEnd(id)
  \/ ToolError(id)
  \/ DeleteRoute(id)

Next ==
  \/ \E id \in OneJob : JobStep(id)
  \/ ClearRoute

Spec == Init /\ [][Next]_vars

(***************************************************************************)
(* POST /api/video-info: the format resolver                               *)
(***************************************************************************)
\* The longest catalog the resolver is given.
MaxFormats == 3

\* The descriptors a catalog is built from.
Descriptors ==
  {F18, F22, F43, F36, F137, F248, F399, F313, F571, F160,
   F139, F140, F141, F251, F249}

\* f.hasVideo && f.hasAudio && f.qualityLabel
progressiveVideoFormats(fmts) ==
  SelectSeq(fmts, LAMBDA f : f.hasVideo /\ f.hasAudio /\ f.qualityLabel # "")

\* f.hasVideo && !f.hasAudio && f.qualityLabel
videoOnlyFormats(fmts) ==
  SelectSeq(fmts, LAMBDA f : f.hasVideo /\ ~f.hasAudio /\ f.qualityLabel # "")

\* info.formats.filter(f => f.hasAudio && !f.hasVideo), the resolver's
\* audioFormats
audioOnlyFormats(fmts) == SelectSeq(fmts, IsAudioOnly)

\* getResolutionPriority, on the quality labels of the catalog: a label
\* includes at most one of the resolutions tested.
getResolutionPriority(quality) ==
  IF quality \in {"2160p", "2160p60"} THEN 9000
  ELSE IF quality \in {"1440p", "1440p60"} THEN 8000
  ELSE IF quality \in {"1080p", "1080p60"} THEN 7000
  ELSE IF quality \in {"720p", "720p60"} THEN 6000
  ELSE IF quality = "480p" THEN 5000
  ELSE IF quality = "360p" THEN 4000
  ELSE IF quality = "240p" THEN 3000
  ELSE IF quality = "144p" THEN 2000
  ELSE 1000

RECURSIVE Contains(_, _)
Contains(seq, x) ==
  IF seq = <<>> THEN FALSE
  ELSE Head(seq) = x \/ Contains(Tail(seq), x)

RECURSIVE Distinct(_)
\* Array.from(new Set(seq)): the first occurrence of each value, in order.
Distinct(seq) ==
  IF seq = <<>> THEN <<>>
  ELSE LET init == Distinct(SubSeq(seq, 1, Len(seq) - 1))
           last == seq[Len(seq)]
       IN  IF Contains(init, last) THEN init ELSE Append(init, last)

RECURSIVE InsertByPriority(_, _)
InsertByPriority(sorted, q) ==
  IF sorted = <<>> THEN <<q>>
  ELSE IF getResolutionPriority(Head(sorted)) >= getResolutionPriority(q)
         THEN <<Head(sorted)>> \o InsertByPriority(Tail(sorted), q)
         ELSE <<q>> \o sorted

RECURSIVE SortByPriorityDesc(_)
\* .sort((a, b) => getResolutionPriority(b) - getResolutionPriority(a))
SortByPriorityDesc(seq) ==
  IF seq = <<>> THEN <<>>
  ELSE InsertByPriority(SortByPriorityDesc(SubSeq(seq, 1, Len(seq) - 1)),
                        seq[Len(seq)])

\* The quality labels of a list of formats, in order.
Labels(seq) == [i \in 1 .. Len(seq) |-> seq[i].qualityLabel]

\* The labels without the Set: one per stream.
QualityLabelsPerStream(fmts) ==
  Labels(progressiveVideoFormats(fmts) \o videoOnlyFormats(fmts))

\* The labels the quality loop visits: each once.
QualityLabels(fmts) ==
  Distinct(Labels(progressiveVideoFormats(fmts) \o videoOnlyFormats(fmts)))

\* The quality labels in the order of the catalog.
allVideoQualitiesUnsorted(fmts) == QualityLabels(fmts)

\* allVideoQualities
allVideoQualities(fmts) == SortByPriorityDesc(QualityLabels(fmts))

\* A choice that prefers the webm container to the mp4 one.
PreferredAtWebmFirst(seq, q) ==
  LET At(container) ==
        First(SelectSeq(seq, LAMBDA f : f.qualityLabel = q
                                          /\ f.container = container))
      any == First(SelectSeq(seq, LAMBDA f : f.qualityLabel = q))
  IN  OrElse(OrElse(At("webm"), At("mp4")), any)

\* The stream of a quality, preferring the mp4 then the webm container.
PreferredAt(seq, q) ==
  LET At(container) ==
        First(SelectSeq(seq, LAMBDA f : f.qualityLabel = q
                                          /\ f.container = container))
      any == First(SelectSeq(seq, LAMBDA f : f.qualityLabel = q))
  IN  OrElse(OrElse(At("mp4"), At("webm")), any)

\* A menu entry.
Option(itag, quality, container, type, method, videoItag, audioItag) ==
  [itag |-> itag, quality |-> quality, container |-> container,
   type |-> type, downloadMethod |-> method,
   videoItag |-> videoItag, audioItag |-> audioItag]

\* The highest bitrate stream with an AAC codec.
AacAudio(audio) ==
  First(SortByBitrateDesc(
          SelectSeq(audio, LAMBDA f : Includes(f.audioCodec, "mp4a"))))

\* An audio choice for webm that settles for any stream.
WebmAudioOrAny(audio) == First(SortByBitrateDesc(audio))

\* The highest bitrate stream in webm or with an opus codec.
WebmAudio(audio) ==
  First(SortByBitrateDesc(
          SelectSeq(audio, LAMBDA f : f.container = "webm"
                                        \/ Includes(f.audioCodec, "opus"))))

\* The mux branch of the quality loop: the option pushed for a video-only
\* stream, or none (the quality is skipped).
MuxOption(fmts, q, videoOnlyFormat) ==
  LET audio          == audioOnlyFormats(fmts)
      videoContainer == IF videoOnlyFormat.container # ""
                          THEN videoOnlyFormat.container ELSE "mp4"
      videoCodec     == videoOnlyFormat.videoCodec
      webmVideoFormat ==
        First(SelectSeq(videoOnlyFormats(fmts),
                        LAMBDA f : f.qualityLabel = q /\ f.container = "webm"))
      Push(audioFormat, outputContainer) ==
        IF audioFormat = <<>> THEN <<>>
        ELSE <<Option("", q, outputContainer, "video", "mux",
                      videoOnlyFormat.itag, audioFormat[1].itag)>>
  IN  IF videoContainer = "mp4" \/ StartsWith(videoCodec, "avc1")
        THEN IF AacAudio(audio) # <<>>
               THEN Push(AacAudio(audio), "mp4")
             ELSE IF webmVideoFormat # <<>>
               THEN Push(WebmAudio(audio), "webm")
             ELSE <<>>
      ELSE IF videoContainer = "webm"
        THEN Push(WebmAudio(audio), "webm")
      ELSE <<>>

\* One turn of the quality loop: the option pushed for a quality label.
VideoOption(fmts, q) ==
  LET progressiveFormat == PreferredAt(progressiveVideoFormats(fmts), q)
      videoOnlyFormat   == PreferredAt(videoOnlyFormats(fmts), q)
  IN  IF progressiveFormat # <<>>
        THEN LET container == IF progressiveFormat[1].container # ""
                                THEN progressiveFormat[1].container ELSE "mp4"
             IN  <<Option(progressiveFormat[1].itag, q, container, "video",
                          "progressive", "", "")>>
      ELSE IF videoOnlyFormat # <<>> /\ Len(audioOnlyFormats(fmts)) > 0
        THEN MuxOption(fmts, q, videoOnlyFormat[1])
      ELSE <<>>

RECURSIVE VideoOptions(_, _)
VideoOptions(fmts, qualities) ==
  IF qualities = <<>> THEN <<>>
  ELSE VideoOption(fmts, Head(qualities)) \o VideoOptions(fmts, Tail(qualities))

\* processedVideoFormats
processedVideoFormats(fmts) == VideoOptions(fmts, allVideoQualities(fmts))

\* The index of the first element with the itag (arr.findIndex).
FirstIndexOfItag(seq, itag) ==
  CHOOSE i \in 1 .. Len(seq) :
    /\ seq[i].itag = itag
    /\ \A k \in 1 .. i - 1 : seq[k].itag # itag

\* uniqueAudioFormats: the first stream of each itag, by bitrate descending.
uniqueAudioFormats(fmts) ==
  LET audio == audioOnlyFormats(fmts)
      Keep(i) == FirstIndexOfItag(audio, audio[i].itag) = i
      kept == {i \in 1 .. Len(audio) : Keep(i)}
      RECURSIVE Pick(_)
      Pick(i) == IF i > Len(audio) THEN <<>>
                 ELSE (IF i \in kept THEN <<audio[i]>> ELSE <<>>) \o Pick(i + 1)
  IN  SortByBitrateDesc(Pick(1))

\* A bucket label that takes a missing bitrate for the highest one.
AudioQualityLabelDefaultHigh(f) ==
  LET actualBitrate == IF f.audioBitrate # 0 THEN f.audioBitrate ELSE 320
  IN  IF actualBitrate >= 250 THEN "320kbps"
      ELSE IF actualBitrate >= 160 THEN "192kbps"
      ELSE "128kbps"

\* The bucket label of an audio stream: actualBitrate = audioBitrate || 128.
AudioQualityLabel(f) ==
  LET actualBitrate == IF f.audioBitrate # 0 THEN f.audioBitrate ELSE 128
  IN  IF actualBitrate >= 250 THEN "320kbps"
      ELSE IF actualBitrate >= 160 THEN "192kbps"
      ELSE "128kbps"

\* processedAudioFormats: every audio stream is offered as mp3
processedAudioFormats(fmts) ==
  LET u == uniqueAudioFormats(fmts)
  IN  [i \in 1 .. Len(u) |->
         Option(u[i].itag, AudioQualityLabel(u[i]), "mp3", "audio", "", "", "")]

\* allFormats
allFormats(fmts) == processedVideoFormats(fmts) \o processedAudioFormats(fmts)

\* The catalog of the remote video gains a stream; no menu was asked for it.
AddFormat(f) ==
  /\ Len(formats) < MaxFormats
  /\ formats' = Append(formats, f)
  /\ response' = <<>>
  /\ UNCHANGED <<downloads, statusLog, files, req, pc, info, rs, ws,
                 downloaded, total, tool, percent, crashed>>

\* POST /api/video-info answers with the menu of the catalog.
VideoInfo ==
  /\ response' = <<allFormats(formats)>>
  /\ UNCHANGED jobVars

InitResolver ==
  /\ downloads = <<>>
  /\ statusLog = [j \in JobIds |-> <<>>]
  /\ files = {}
  /\ formats = <<>>
  /\ req = [j \in JobIds |-> NoReq]
  /\ pc = [j \in JobIds |-> "idle"]
  /\ info = [j \in JobIds |-> NoInfo]
  /\ rs = [j \in JobIds |-> [l \in Legs |-> "none"]]
  /\ ws = [j \in JobIds |-> [l \in Legs |-> "none"]]
  /\ downloaded = [j \in JobIds |-> [l \in Legs |-> 0]]
  /\ total = [j \in JobIds |-> [l \in Legs |-> 0]]
  /\ tool = [j \in JobIds |-> "none"]
  /\ percent = [j \in JobIds |-> 0]
  /\ crashed = FALSE
  /\ response = <<>>

NextResolver ==
  \/ \E f \in Descriptors : AddFormat(f)
  \/ VideoInfo

\* The resolver on every catalog of at most MaxFormats descriptors.
SpecResolver == InitResolver /\ [][NextResolver]_vars

(***************************************************************************)
(* Fairness: an event that can happen is not postponed forever (a fetch    *)
(* finishes or fails, ffmpeg ends or fails, getInfo settles).              *)
(***************************************************************************)
FairSpec == Spec /\ WF_vars(Next)

(***************************************************************************)
(* Specification: two jobs running at once. Only the orchestrators run     *)
(* (the delete routes are left out); to keep the product of the two jobs   *)
(* small there is one catalog, one request per path, and every fetch and   *)
(* every ffmpeg run reports its progress once, at its end. Both jobs run    *)
(* the same code, so a failing write stream is explored in one of them     *)
(* only, against every state of the other.                                 *)
(***************************************************************************)
PairRequests ==
  { Req("progressive", "mp4",  "18",  "", ""),
    Req("progressive", "mp3",  "140", "", ""),
    Req("mux", "mp4",  "", "137", "140") }

PairStep(id) ==
  \/ \E r \in PairRequests : PostDownload(id, r)
  \/ GetInfoFail(id)
  \/ GetInfoOk(id)
  \/ \E leg \in Legs : WriteOpen(id, leg)
  \/ \E leg \in Legs : StreamProgress(id, leg, info[id].size[leg])
  \/ \E leg \in Legs : StreamEnd(id, leg)
  \/ \E leg \in Legs : WriteFinish(id, leg)
  \/ \E leg \in Legs : StreamError(id, leg)
  \/ ToolProgress(id, 100)
  \/ ToolEnd(id)
  \/ ToolError(id)

InitPair == Init /\ formats = <<F18, F137, F248, F140, F251>>

NextPair ==
  \/ \E id \in JobIds : PairStep(id)
  \/ \E leg \in Legs : WriteError("j1", leg)

SpecPair == InitPair /\ [][NextPair]_vars

(***************************************************************************)
(* Properties                                                              *)
(***************************************************************************)
Present(id) == id \in DOMAIN downloads

PresentNext(id) == id \in DOMAIN downloads'

RECURSIVE Collapse(_)
\* A sequence with every run of equal values shortened to one.
Collapse(seq) ==
  IF Len(seq) <= 1 THEN seq
  ELSE LET init == Collapse(SubSeq(seq, 1, Len(seq) - 1))
       IN  IF init[Len(init)] = seq[Len(seq)] THEN init
           ELSE Append(init, seq[Len(seq)])

RECURSIVE IsSubsequence(_, _)
IsSubsequence(s, t) ==
  IF s = <<>> THEN TRUE
  ELSE IF t = <<>> THEN FALSE
  ELSE IF Head(s) = Head(t) THEN IsSubsequence(Tail(s), Tail(t))
  ELSE IsSubsequence(s, Tail(t))

\* C1: the distinct status values written to a job's record, in order, are a
\* subsequence of pending, downloading, completed or of pending, downloading,
\* failed: no status is entered twice and the two final statuses exclude
\* each other.
C1_StatusOrder ==
  \A id \in JobIds :
    LET written == Collapse(statusLog[id])
    IN  \/ IsSubsequence(written, <<"pending", "downloading", "completed">>)
        \/ IsSubsequence(written, <<"pending", "downloading", "failed">>)

\* C1 witness: a mux job whose two fetch legs both failed, the first failure
\* having set the job failed, with progress events of both legs seen.
C1_Witness ==
  \E id \in JobIds :
    /\ info[id].kind = "mux"
    /\ rs[id]["video"] = "error" /\ rs[id]["audio"] = "error"
    /\ total[id]["video"] > 0 /\ total[id]["audio"] > 0
    /\ statusLog[id] = <<"pending", "downloading", "failed">>

\* C2: a record's progress is 100 exactly when its status is completed.
C2_HundredIffCompleted ==
  \A id \in DOMAIN downloads :
    (downloads[id].progress = 100) <=> (downloads[id].status = "completed")

\* C3: a record's progress is an integer between 0 and 100.
C3_ProgressRange ==
  \A id \in DOMAIN downloads : downloads[id].progress \in 0 .. 100

\* C3 witness: the mux command reported 100 percent, which wrote 99.
C3_Witness ==
  \E id \in DOMAIN downloads :
    /\ info[id].kind = "mux"
    /\ tool[id] = "running"
    /\ percent[id] = 100
    /\ downloads[id].progress = 99

\* C4: while a job stays downloading, an update never lowers its progress.
C4_ProgressMonotone ==
  [][\A id \in JobIds :
       (/\ Present(id) /\ PresentNext(id)
        /\ downloads[id].status = "downloading"
        /\ downloads'[id].status = "downloading")
       => downloads'[id].progress >= downloads[id].progress]_vars

\* C4 witness: an mp3 job still downloading whose progress went through the
\* fetch, the start of the conversion and a conversion progress event.
C4_Witness ==
  \E id \in DOMAIN downloads :
    /\ info[id].isMP3Conversion
    /\ downloads[id].status = "downloading"
    /\ tool[id] = "running"
    /\ percent[id] = 50
    /\ downloads[id].progress = 88

\* C5: the update that sets a job completed sets its progress to 100.
C5_CompletedAtHundred ==
  [][\A id \in JobIds :
       (/\ PresentNext(id)
        /\ downloads'[id].status = "completed"
        /\ (Present(id) => downloads[id].status # "completed"))
       => downloads'[id].progress = 100]_vars

\* C5 witness: a mux job completed after the mux command reported progress.
C5_Witness ==
  \E id \in DOMAIN downloads :
    /\ info[id].kind = "mux"
    /\ tool[id] = "ended"
    /\ percent[id] > 0
    /\ downloads[id].status = "completed"
    /\ downloads[id].progress = 100

\* The files of a mux job: its two temporary files and its output under
\* either container.
MuxFiles(id) ==
  {videoTempPath(id), audioTempPath(id),
   DownloadPath(id, "mp4"), DownloadPath(id, "webm")}

ErrorEvent(id) ==
  \/ \E leg \in Legs : rs[id][leg] # "error" /\ rs'[id][leg] = "error"
  \/ \E leg \in Legs : ws[id][leg] # "error" /\ ws'[id][leg] = "error"
  \/ tool[id] # "error" /\ tool'[id] = "error"

\* C7: in the progressive path every fetch error, write error and transcode
\* error sets the job failed with progress 0, in the audio and in the video
\* branch.
C7_ProgressiveErrorsFail ==
  [][\A id \in JobIds :
       (/\ req[id].downloadMethod = "progressive"
        /\ Present(id) /\ PresentNext(id)
        /\ ErrorEvent(id))
       => /\ downloads'[id].status = "failed"
          /\ downloads'[id].progress = 0]_vars

\* A started job is over: completed, failed, or deleted by the client.
Settled(id) ==
  Present(id) => downloads[id].status \in {"completed", "failed"}

\* C8: every started job eventually is completed or failed, and no error of
\* the background processing escapes the job (is thrown uncaught).
C8_JobBoundary ==
  /\ \A id \in OneJob : (pc[id] # "idle") ~> Settled(id)
  /\ [](~crashed)

\* The video options of a menu.
VideoMenu(menu) == SelectSeq(menu, LAMBDA o : o.type = "video")

\* C9: the video part of the menu holds at most one option per quality label.
C9_UniqueQuality ==
  response # <<>> =>
    LET v == VideoMenu(response[1])
    IN  \A i, k \in 1 .. Len(v) : v[i].quality = v[k].quality => i = k

\* C9 witness: a catalog with two streams of one quality label, and a menu
\* with an option for that label.
C9_Witness ==
  /\ response # <<>>
  /\ \E i, k \in 1 .. Len(formats) :
       /\ i # k
       /\ formats[i].hasVideo /\ formats[k].hasVideo
       /\ formats[i].qualityLabel = formats[k].qualityLabel
       /\ \E n \in 1 .. Len(response[1]) :
            /\ response[1][n].type = "video"
            /\ response[1][n].quality = formats[i].qualityLabel

\* C10: the two streams a mux option names are compatible: an mp4 or avc1
\* video goes with mp4a audio in an mp4 container, a webm video with
\* opus/webm audio in a webm container, and no other pairing is offered.
C10_MuxCompatible ==
  response # <<>> =>
    \A n \in 1 .. Len(response[1]) :
      LET o == response[1][n]
          v == FindItag(formats, o.videoItag)[1]
          a == FindItag(formats, o.audioItag)[1]
          mp4Video  == v.container = "mp4" \/ StartsWith(v.videoCodec, "avc1")
          webmVideo == v.container = "webm"
      IN  o.downloadMethod = "mux" =>
            /\ mp4Video \/ webmVideo
            /\ mp4Video => Includes(a.audioCodec, "mp4a") /\ o.container = "mp4"
            /\ webmVideo =>
                 /\ a.container = "webm" \/ Includes(a.audioCodec, "opus")
                 /\ o.container = "webm"

\* The audio options of a menu.
AudioMenu(menu) == SelectSeq(menu, LAMBDA o : o.type = "audio")

\* The order of the bucket labels.
BucketRank(label) ==
  IF label = "320kbps" THEN 3 ELSE IF label = "192kbps" THEN 2 ELSE 1

\* C11: for any two options of the audio menu, the stream with the bitrate
\* that is not lower (a missing bitrate counting as 0) has the bucket label
\* that is not lower, in the order 128kbps < 192kbps < 320kbps.
C11_BucketMonotone ==
  response # <<>> =>
    LET m == AudioMenu(response[1])
    IN  \A i, k \in 1 .. Len(m) :
          LET a == FindItag(formats, m[i].itag)[1]
              b == FindItag(formats, m[k].itag)[1]
          IN  BitrateOr0(a) >= BitrateOr0(b)
                => BucketRank(m[i].quality) >= BucketRank(m[k].quality)

\* C11 witness: a menu with the stream of 256 kbps in the bucket 320kbps, a
\* stream of 48 kbps and a stream with no bitrate both in the bucket 128kbps.
C11_Witness ==
  /\ response # <<>>
  /\ LET m == AudioMenu(response[1])
     IN  /\ \E i \in 1 .. Len(m) : m[i].itag = "141" /\ m[i].quality = "320kbps"
         /\ \E i \in 1 .. Len(m) : m[i].itag = "139" /\ m[i].quality = "128kbps"
         /\ \E i \in 1 .. Len(m) : m[i].itag = "249" /\ m[i].quality = "128kbps"

\* C12: the mux command of a mux job has started only if the write streams
\* of both temporary files have finished; it never runs while a leg is
\* unfinished or has failed.
C12_MuxAfterBothFinished ==
  \A id \in JobIds :
    (info[id].kind = "mux" /\ tool[id] # "none")
      => \A leg \in Legs : rs[id][leg] = "ended" /\ ws[id][leg] = "finished"

\* C12 witness: the mux command runs, both fetches having reported progress.
C12_Witness ==
  \E id \in DOMAIN downloads :
    /\ info[id].kind = "mux"
    /\ tool[id] = "running"
    /\ total[id]["video"] > 0 /\ total[id]["audio"] > 0
    /\ downloads[id].progress = MuxStart

\* The values a client may send as the format of a request.
Hints == {"mp4", "webm", "mp3", "mkv"}

\* C13: what a mux job derives after getInfo (its temporary paths, its
\* final path, the sizes of its streams) is the same for every format hint
\* the request could carry, and the final path is named after the container
\* derived from the two catalog streams; the filePath of its record is that
\* path or none.
C13_HintIndependent ==
  \A id \in JobIds :
    (req[id].downloadMethod = "mux" /\ info[id].kind = "mux") =>
      LET v == FindItag(formats, req[id].videoItag)[1]
          a == FindItag(formats, req[id].audioItag)[1]
      IN  /\ \A hint \in Hints :
               Plan(id, [req[id] EXCEPT !.format = hint], formats) = info[id]
          /\ info[id].finalFilepath = DownloadPath(id, MuxOutputContainer(v, a))
          /\ Present(id) =>
               downloads[id].filePath \in {NULL, info[id].finalFilepath}

\* C13 witness: a mux job of an avc1 video and an mp4a audio asked for as
\* webm is completed with the mp4 file.
C13_Witness ==
  \E id \in DOMAIN downloads :
    /\ req[id].downloadMethod = "mux"
    /\ req[id].format = "webm"
    /\ req[id].videoItag = "137"
    /\ downloads[id].status = "completed"
    /\ downloads[id].filePath = DownloadPath(id, "mp4")
    /\ DownloadPath(id, "mp4") \in files
    /\ DownloadPath(id, "webm") \notin files

\* C14: a record has a filePath only while its status is completed, and an
\* update gives a record a filePath only if it sets the status completed.
C14_FilePathOnlyCompleted ==
  /\ [](\A id \in DOMAIN downloads :
          downloads[id].filePath # NULL => downloads[id].status = "completed")
  /\ [][\A id \in JobIds :
          (/\ PresentNext(id)
           /\ downloads'[id].filePath # NULL
           /\ (Present(id) => downloads[id].filePath # downloads'[id].filePath))
          => /\ downloads'[id].status = "completed"
             /\ (Present(id) => downloads[id].status # "completed")]_vars

\* C14 witness: an mp3 job is completed with its mp3 file as filePath, the
\* conversion having reported progress.
C14_Witness ==
  \E id \in DOMAIN downloads :
    /\ info[id].isMP3Conversion
    /\ tool[id] = "ended"
    /\ percent[id] > 0
    /\ downloads[id].status = "completed"
    /\ downloads[id].filePath = DownloadPath(id, "mp3")

\* C15: in every state of the store, clearing it when it is empty leaves it
\* empty, and deleting an id it does not hold returns false and leaves
\* every record as it is.
C15_StoreIdempotence ==
  /\ DOMAIN downloads = {} =>
       /\ clearDownloads(downloads) = downloads
       /\ DOMAIN clearDownloads(downloads) = {}
  /\ \A id \in JobIds \ DOMAIN downloads :
       /\ deleteDownloadResult(downloads, id) = FALSE
       /\ deleteDownload(downloads, id) = downloads

\* C15 witness: the store holds the record of a completed job and not the
\* other id.
C15_Witness ==
  /\ DOMAIN downloads = {"j1"}
  /\ downloads["j1"].status = "completed"
  /\ downloads["j1"].filePath # NULL

\* C16: once a record's status is completed or failed, no later event of
\* its job changes its status, progress or filePath.
C16_TerminalAbsorbing ==
  [][\A id \in JobIds :
       (/\ Present(id) /\ PresentNext(id)
        /\ downloads[id].status \in {"completed", "failed"})
       => downloads'[id] = downloads[id]]_vars

\* C17: a record is completed only when the write stream of every file its
\* job fetched has finished, in the video branch, the audio branch and the
\* mux path.
C17_CompletedAfterFinish ==
  \A id \in DOMAIN downloads :
    downloads[id].status = "completed"
      => \A leg \in LegsOf(info[id]) : ws[id][leg] = "finished"

\* C18: in the fetch phase of a mux job, a step after which one of the two
\* legs has still reported no total leaves the record's progress as it was,
\* whatever the other leg reported.
C18_NoProgressBeforeBothTotals ==
  [][\A id \in JobIds :
       (/\ info[id].kind = "mux"
        /\ Present(id) /\ PresentNext(id)
        /\ tool'[id] = "none"
        /\ \E leg \in Legs : total'[id][leg] = 0)
       => downloads'[id].progress = downloads[id].progress]_vars

\* C18 witness: the video leg of a mux job reported every byte and the audio
\* leg nothing; the record is downloading with progress 0.
C18_Witness ==
  \E id \in DOMAIN downloads :
    /\ info[id].kind = "mux"
    /\ total[id]["video"] > 0
    /\ downloaded[id]["video"] = info[id].size["video"]
    /\ total[id]["audio"] = 0
    /\ downloads[id].status = "downloading"
    /\ downloads[id].progress = 0

\* p is the integer nearest to ((vb / vt + ab / at) / 2) * 80, a half
\* counting upwards.
IsOverallProgress(p, vb, vt, ab, at) ==
  /\ (2 * p - 1) * vt * at <= 80 * (vb * at + ab * vt)
  /\ 80 * (vb * at + ab * vt) < (2 * p + 1) * vt * at

\* C19: in a mux job with both totals known, a progress event of either leg
\* writes the rounded mean of the two latest fractions scaled to 80, at most
\* 80; while the job is fetching, the record's progress is that function of
\* the latest bytes and totals, whatever the order of the events was.
C19_OverallProgress ==
  /\ [](\A id \in DOMAIN downloads :
          (/\ info[id].kind = "mux"
           /\ downloads[id].status = "downloading"
           /\ tool[id] = "none"
           /\ \A leg \in Legs : total[id][leg] > 0)
          => /\ IsOverallProgress(downloads[id].progress,
                                   downloaded[id]["video"], total[id]["video"],
                                   downloaded[id]["audio"], total[id]["audio"])
             /\ downloads[id].progress <= 80)
  /\ [][\A id \in JobIds :
          (/\ info[id].kind = "mux"
           /\ Present(id) /\ PresentNext(id)
           /\ <<downloaded'[id], total'[id]>> # <<downloaded[id], total[id]>>
           /\ \A leg \in Legs : total'[id][leg] > 0)
          => /\ IsOverallProgress(downloads'[id].progress,
                                   downloaded'[id]["video"], total'[id]["video"],
                                   downloaded'[id]["audio"], total'[id]["audio"])
             /\ downloads'[id].progress <= 80]_vars

\* C19 witness: two of three video bytes and one of two audio bytes were
\* reported: the progress is round(((2/3 + 1/2) / 2) * 80) = 47.
C19_Witness ==
  \E id \in DOMAIN downloads :
    /\ info[id].kind = "mux"
    /\ downloads[id].status = "downloading"
    /\ downloaded[id]["video"] = 2 /\ total[id]["video"] = 3
    /\ downloaded[id]["audio"] = 1 /\ total[id]["audio"] = 2
    /\ downloads[id].progress = 47

\* C20: in a mux job the step that starts the mux command leaves the
\* progress at 81; while the command runs the progress is in 81..99, each of
\* its progress events writing the integer nearest to 81 + percent * 0.18;
\* and the progress is 100 only in a completed record.
C20_MuxPhaseProgress ==
  /\ [](\A id \in DOMAIN downloads :
          info[id].kind = "mux" =>
            /\ tool[id] = "running" => downloads[id].progress \in 81 .. 99
            /\ downloads[id].progress = 100
                 => downloads[id].status = "completed")
  /\ [][\A id \in JobIds :
          (info[id].kind = "mux" /\ Present(id) /\ PresentNext(id)) =>
            /\ (tool[id] = "none" /\ tool'[id] = "running")
                 => downloads'[id].progress = 81
            /\ (tool[id] = "running" /\ percent'[id] # percent[id])
                 => LET p == downloads'[id].progress
                    IN  /\ p \in 81 .. 99
                        /\ 200 * p - 100 <= 16200 + 36 * percent'[id]
                        /\ 16200 + 36 * percent'[id] < 200 * p + 100]_vars

\* C20 witness: the mux command reported 50 percent, which wrote 90.
C20_Witness ==
  \E id \in DOMAIN downloads :
    /\ info[id].kind = "mux"
    /\ tool[id] = "running"
    /\ percent[id] = 50
    /\ downloads[id].progress = 90

\* p is the integer nearest to (d / t) * scale, a half counting upwards.
IsScaledFraction(p, d, t, scale) ==
  /\ (2 * p - 1) * t <= 2 * scale * d
  /\ 2 * scale * d < (2 * p + 1) * t

\* C21: in the audio branch a fetch progress event writes the fraction of
\* the bytes fetched scaled to 70 when mp3 was asked for, a value in 0..70,
\* and scaled to 100 otherwise; a progress event of the mp3 conversion
\* writes the integer nearest to 75 + percent * 0.25, a value in 75..100.
C21_AudioProgressScaling ==
  [][\A id \in JobIds :
       (info[id].kind = "audio" /\ Present(id) /\ PresentNext(id)) =>
         LET p == downloads'[id].progress
             d == downloaded'[id]["audio"]
             t == total'[id]["audio"]
         IN  /\ <<downloaded'[id], total'[id]>> # <<downloaded[id], total[id]>>
                  => IF req[id].format = "mp3"
                       THEN p \in 0 .. 70 /\ IsScaledFraction(p, d, t, 70)
                       ELSE p \in 0 .. 100 /\ IsScaledFraction(p, d, t, 100)
             /\ (tool[id] = "running" /\ percent'[id] # percent[id])
                  => /\ p \in 75 .. 100
                     /\ 8 * p - 4 <= 600 + 2 * percent'[id]
                     /\ 600 + 2 * percent'[id] < 8 * p + 4]_vars

\* C21 witness: an mp3 job whose fetch reported every byte, which wrote 70,
\* the conversion not yet started.
C21_Witness ==
  \E id \in DOMAIN downloads :
    /\ info[id].kind = "audio"
    /\ req[id].format = "mp3"
    /\ tool[id] = "none"
    /\ downloaded[id]["audio"] = total[id]["audio"]
    /\ total[id]["audio"] > 0
    /\ downloads[id].progress = 70

\* The video stream goes into an mp4 container: it is mp4 or AVC.
IsMp4Video(v) == v.container = "mp4" \/ StartsWith(v.videoCodec, "avc1")

\* The pairing rule of the menu: AAC audio for an mp4 or AVC video, webm or
\* opus audio for a webm video.
CompatiblePair(v, a) ==
  \/ IsMp4Video(v) /\ Includes(a.audioCodec, "mp4a")
  \/ v.container = "webm"
       /\ (a.container = "webm" \/ Includes(a.audioCodec, "opus"))

\* The elements of a sequence.
Range(seq) == {seq[i] : i \in 1 .. Len(seq)}

\* The catalog's streams of a quality: with both tracks, and video only.
ProgressiveAt(q) ==
  {f \in Range(formats) : f.hasVideo /\ f.hasAudio /\ f.qualityLabel = q}

VideoOnlyAt(q) ==
  {f \in Range(formats) : f.hasVideo /\ ~f.hasAudio /\ f.qualityLabel = q}

AudioOnly == {f \in Range(formats) : f.hasAudio /\ ~f.hasVideo}

\* The quality labels of the catalog's streams with video.
CatalogQualities ==
  {f.qualityLabel : f \in {g \in Range(formats) : g.hasVideo}} \ {""}

\* The options the menu holds for a quality.
OptionsAt(menu, q) ==
  {n \in 1 .. Len(menu) : menu[n].type = "video" /\ menu[n].quality = q}

C23_ProgressivePreferred ==
  response # <<>> =>
    LET menu == response[1]
    IN  /\ \A q \in CatalogQualities :
             ProgressiveAt(q) # {} =>
               /\ OptionsAt(menu, q) # {}
               /\ \A n \in OptionsAt(menu, q) :
                    /\ menu[n].downloadMethod = "progressive"
                    /\ \E f \in ProgressiveAt(q) :
                         /\ f.itag = menu[n].itag
                         /\ f.container = menu[n].container
                         /\ (\E g \in ProgressiveAt(q) : g.container = "mp4")
                              => f.container = "mp4"
                         /\ (\E g \in ProgressiveAt(q) : g.container = "webm")
                              => f.container \in {"mp4", "webm"}
        /\ \A n \in 1 .. Len(menu) :
             menu[n].downloadMethod = "mux"
               => ProgressiveAt(menu[n].quality) = {}

\* C23 witness: the catalog lists a webm progressive stream of 360p before
\* an mp4 one and has a video-only stream besides; the menu offers the mp4
\* progressive stream for 360p.
C23_Witness ==
  /\ response # <<>>
  /\ Len(formats) >= 2
  /\ formats[1] = F43
  /\ formats[2] = F18
  /\ \E n \in OptionsAt(response[1], "360p") :
       /\ response[1][n].itag = "18"
       /\ response[1][n].downloadMethod = "progressive"

\* C24: the audio stream of a mux option is one of the audio-only streams
\* compatible with the option's video stream and no compatible one has a
\* higher bitrate; an mp4 or AVC video with an AAC stream in the catalog is
\* paired with an AAC stream in an mp4 container.
C24_BestCompatibleAudio ==
  response # <<>> =>
    \A n \in 1 .. Len(response[1]) :
      LET o == response[1][n]
          v == FindItag(formats, o.videoItag)[1]
          a == FindItag(formats, o.audioItag)[1]
          compatible == {x \in AudioOnly : CompatiblePair(v, x)}
      IN  o.downloadMethod = "mux" =>
            /\ a \in compatible
            /\ \A x \in compatible : BitrateOr0(a) >= BitrateOr0(x)
            /\ (IsMp4Video(v)
                  /\ \E x \in AudioOnly : Includes(x.audioCodec, "mp4a"))
                 => Includes(a.audioCodec, "mp4a") /\ o.container = "mp4"

\* C25: in the menu no audio option precedes a video option, the video
\* options are in non-increasing order of the resolution priority of their
\* quality labels, and the audio options are in non-increasing order of the
\* bitrate of their streams.
C25_MenuOrder ==
  response # <<>> =>
    LET menu == response[1]
    IN  \A i, k \in 1 .. Len(menu) :
          i < k =>
            /\ ~(menu[i].type = "audio" /\ menu[k].type = "video")
            /\ (menu[i].type = "video" /\ menu[k].type = "video")
                 => getResolutionPriority(menu[i].quality)
                      >= getResolutionPriority(menu[k].quality)
            /\ (menu[i].type = "audio" /\ menu[k].type = "audio")
                 => BitrateOr0(FindItag(formats, menu[i].itag)[1])
                      >= BitrateOr0(FindItag(formats, menu[k].itag)[1])

\* C25 witness: the catalog lists 4320p (no entry of the table), then 720p,
\* then an audio stream; the menu lists 720p, 4320p and the audio option.
C25_Witness ==
  /\ response # <<>>
  /\ formats = <<F571, F22, F140>>
  /\ Len(response[1]) = 3
  /\ response[1][1].quality = "720p"
  /\ response[1][2].quality = "4320p"
  /\ response[1][3].type = "audio"

\* The files on disk whose path names the job.
JobFiles(id) == {f \in files : \E i \in 1 .. Len(f) : f[i] = id}

\* The job passed its catalog lookup: getInfo settled.
LookedUp(id) == pc[id] \notin {"idle", "getInfo"}

\* No stream of the job was created.
NoFetch(id) ==
  /\ info[id].kind = ""
  /\ \A leg \in Legs : rs[id][leg] = "none" /\ ws[id][leg] = "none"

\* The job's record, if it is still stored, is failed with progress 0.
FailedAtZero(id) ==
  Present(id) =>
    downloads[id].status = "failed" /\ downloads[id].progress = 0

\* C26: in the audio branch of the progressive path the stream fetched is
\* the audio-only stream of the requested itag when the catalog has one,
\* else an audio-only stream of the highest bitrate; with no audio-only
\* stream in the catalog no stream is created and the job is failed with
\* progress 0.
C26_AudioLookup ==
  \A id \in JobIds :
    (/\ req[id].downloadMethod = "progressive"
     /\ req[id].format \in audioFormats
     /\ LookedUp(id)) =>
      LET exact == {f \in AudioOnly : f.itag = req[id].itag}
      IN  /\ info[id].kind # "" =>
               /\ info[id].kind = "audio"
               /\ \E f \in AudioOnly : f.itag = info[id].itag["audio"]
               /\ exact # {} => info[id].itag["audio"] = req[id].itag
               /\ exact = {} =>
                    \A f \in AudioOnly :
                      BitrateOr0(FindItag(formats, info[id].itag["audio"])[1])
                        >= BitrateOr0(f)
          /\ AudioOnly = {} =>
               /\ NoFetch(id)
               /\ JobFiles(id) = {}
               /\ FailedAtZero(id)

\* C26 witness: mp3 was asked for with itag 140, which the catalog does not
\* have; the stream of 256 kbps is fetched, not the first audio-only one.
C26_Witness ==
  \E id \in DOMAIN downloads :
    /\ req[id].format = "mp3"
    /\ req[id].itag = "140"
    /\ F140 \notin Range(formats)
    /\ info[id].itag["audio"] = "141"
    /\ rs[id]["audio"] = "flowing"
    /\ downloaded[id]["audio"] > 0

\* C27: in the video branch of the progressive path, when no stream with
\* video has the requested itag, no stream is created, no file of the job
\* exists and the job is failed with progress 0.
C27_VideoLookupNoFallback ==
  \A id \in JobIds :
    (/\ req[id].downloadMethod = "progressive"
     /\ req[id].format \notin audioFormats
     /\ LookedUp(id)
     /\ ~\E f \in Range(formats) : f.itag = req[id].itag /\ f.hasVideo) =>
      /\ NoFetch(id)
      /\ JobFiles(id) = {}
      /\ FailedAtZero(id)

\* C27 witness: mp4 was asked for with the itag of an audio-only stream of
\* a catalog that has streams with video; the job is failed.
C27_Witness ==
  \E id \in DOMAIN downloads :
    /\ req[id].downloadMethod = "progressive"
    /\ req[id].format = "mp4"
    /\ req[id].itag = "140"
    /\ F140 \in Range(formats)
    /\ \E f \in Range(formats) : f.hasVideo
    /\ pc[id] = "done"
    /\ downloads[id].status = "failed"

\* The temporary files of a job: the two fetched files of a mux job, the
\* raw file of an mp3 job.
TempFiles(id) ==
  IF info[id].kind = "mux" THEN {videoTempPath(id), audioTempPath(id)}
  ELSE IF info[id].isMP3Conversion THEN {info[id].path["audio"]}
  ELSE {}

C29_ConversionFailureCleanup ==
  /\ [](\A id \in JobIds :
          (info[id].isMP3Conversion /\ tool[id] = "error")
            => /\ ws[id]["audio"] = "finished"
               /\ TempFiles(id) \cap files = {}
               /\ FailedAtZero(id))
  /\ [][\A id \in JobIds :
          (/\ info[id].isMP3Conversion
           /\ tool[id] = "running" /\ tool'[id] = "error"
           /\ Present(id))
          => /\ PresentNext(id)
             /\ downloads'[id].status = "failed"
             /\ downloads'[id].progress = 0
             /\ info[id].path["audio"] \notin files']_vars

\* C29 witness: the conversion of an mp3 job failed after it had reported
\* progress; the job is failed at 0 and its raw file is gone.
C29_Witness ==
  \E id \in DOMAIN downloads :
    /\ info[id].isMP3Conversion
    /\ tool[id] = "error"
    /\ percent[id] > 0
    /\ downloads[id].status = "failed"
    /\ downloads[id].progress = 0
    /\ info[id].path["audio"] \notin files

\* C30: once the record of a started job is deleted, no later step stores a
\* record under its id again, whatever the job's task still does.
C30_DeletedStaysAbsent ==
  [][\A id \in JobIds :
       (pc[id] # "idle" /\ getDownload(downloads, id) = <<>>)
         => getDownload(downloads', id) = <<>>]_vars

\* C30 witness: the record of a mux job was deleted while the job was in
\* flight; the job went on to run the mux command to its end, and its
\* output file exists with no record.
C30_Witness ==
  \E id \in JobIds :
    /\ info[id].kind = "mux"
    /\ getDownload(downloads, id) = <<>>
    /\ tool[id] = "ended"
    /\ percent[id] > 0
    /\ info[id].finalFilepath \in files

\* The paths a job's orchestrator derives: the files it fetches into, its
\* output, and for a mux job what its catch block unlinks.
PathsOf(id) ==
  ({info[id].path[leg] : leg \in Legs} \cup {info[id].finalFilepath}
     \cup (IF info[id].kind = "mux" THEN MuxFiles(id) ELSE {})) \ {NULL}

\* The files a step creates or deletes.
FilesTouched == (files \ files') \cup (files' \ files)

\* The step changes nothing of the job: not its record, not its task.
Untouched(id) ==
  /\ getDownload(downloads', id) = getDownload(downloads, id)
  /\ statusLog'[id] = statusLog[id]
  /\ <<req'[id], pc'[id], info'[id], rs'[id], ws'[id]>>
       = <<req[id], pc[id], info[id], rs[id], ws[id]>>
  /\ <<downloaded'[id], total'[id], tool'[id], percent'[id]>>
       = <<downloaded[id], total[id], tool[id], percent[id]>>

\* C31: the paths of two jobs are disjoint, and every step of an
\* orchestrator belongs to one job: the files it creates or deletes are
\* paths of that job and not of the other, and the record and the task of
\* every other job are left as they were.
C31_JobIsolation ==
  /\ [](\A a, b \in JobIds : a # b => PathsOf(a) \cap PathsOf(b) = {})
  /\ [][\E id \in JobIds :
          /\ FilesTouched \subseteq PathsOf(id)
          /\ \A other \in JobIds \ {id} :
               /\ FilesTouched \cap PathsOf(other) = {}
               /\ Untouched(other)]_vars

\* C31 witness: two mux jobs at once; the first failed and its files are
\* removed, the second is downloading with both its temporary files on
\* disk and progress of its own.
C31_Witness ==
  /\ info["j1"].kind = "mux" /\ info["j2"].kind = "mux"
  /\ DOMAIN downloads = {"j1", "j2"}
  /\ downloads["j1"].status = "failed"
  /\ MuxFiles("j1") \cap files = {}
  /\ downloads["j2"].status = "downloading"
  /\ downloads["j2"].progress = 80
  /\ videoTempPath("j2") \in files
  /\ audioTempPath("j2") \in files

====
